---- MODULE Spec2Model ----
(***************************************************************************)
(* A model of src/credit_scorer.py (class CIBILScoreCalculator).           *)
(*                                                                         *)
(* The program computes with Python floats, that is IEEE-754 binary64      *)
(* numbers, and several of its properties depend on the rounding of each   *)
(* single operation.  The model therefore carries its own binary64         *)
(* arithmetic: a float is a sign, a 53-bit significand and a binary        *)
(* exponent, and every operation rounds its exact result to the nearest    *)
(* float, ties to even.  Significands do not fit the integers of the model *)
(* checker, so natural numbers are kept as little-endian sequences of      *)
(* 15-bit limbs.                                                           *)
(*                                                                         *)
(* Outside the model: NaN, infinities, negative zero and subnormals.  The  *)
(* inputs the model draws are finite and of moderate size, so none of them *)
(* arises in any modelled run.                                             *)
(***************************************************************************)
EXTENDS Integers, Sequences, FiniteSets, TLC

-----------------------------------------------------------------------------
(* Natural numbers of arbitrary size: little-endian limbs, no leading zero. *)

LimbBits == 15
Base == 32768

\* 2^n for n < LimbBits
Pow2(n) ==
    <<1, 2, 4, 8, 16, 32, 64, 128, 256, 512, 1024, 2048, 4096, 8192,
      16384>>[n + 1]

Limb(a, i) == IF i <= Len(a) THEN a[i] ELSE 0

RECURSIVE BTrim(_)
BTrim(a) ==
    IF a = <<>> THEN a
    ELSE IF a[Len(a)] = 0 THEN BTrim(SubSeq(a, 1, Len(a) - 1)) ELSE a

RECURSIVE BFromNat(_)
BFromNat(n) == IF n = 0 THEN <<>> ELSE <<n % Base>> \o BFromNat(n \div Base)

RECURSIVE BToNat(_)
BToNat(a) == IF a = <<>> THEN 0 ELSE a[1] + Base * BToNat(Tail(a))

RECURSIVE BAddC(_, _, _, _)
BAddC(a, b, i, c) ==
    IF i > Len(a) /\ i > Len(b)
    THEN (IF c = 0 THEN <<>> ELSE <<c>>)
    ELSE LET s == Limb(a, i) + Limb(b, i) + c
         IN  <<s % Base>> \o BAddC(a, b, i + 1, s \div Base)

BAdd(a, b) == BAddC(a, b, 1, 0)

RECURSIVE BSubC(_, _, _, _)
BSubC(a, b, i, br) ==
    IF i > Len(a) THEN <<>>
    ELSE LET d == Limb(a, i) - Limb(b, i) - br
         IN  IF d < 0 THEN <<d + Base>> \o BSubC(a, b, i + 1, 1)
                      ELSE <<d>> \o BSubC(a, b, i + 1, 0)

\* a - b for a >= b
BSub(a, b) == BTrim(BSubC(a, b, 1, 0))

RECURSIVE BCmpAt(_, _, _)
BCmpAt(a, b, i) ==
    IF i = 0 THEN 0
    ELSE IF a[i] # b[i] THEN (IF a[i] < b[i] THEN -1 ELSE 1)
    ELSE BCmpAt(a, b, i - 1)

\* -1, 0 or 1 as a < b, a = b or a > b
BCmp(a, b) ==
    IF Len(a) # Len(b) THEN (IF Len(a) < Len(b) THEN -1 ELSE 1)
    ELSE BCmpAt(a, b, Len(a))

RECURSIVE BMulLimbC(_, _, _, _)
BMulLimbC(a, k, i, c) ==
    IF i > Len(a) THEN (IF c = 0 THEN <<>> ELSE <<c>>)
    ELSE LET p == a[i] * k + c
         IN  <<p % Base>> \o BMulLimbC(a, k, i + 1, p \div Base)

RECURSIVE BMulAt(_, _, _)
BMulAt(a, b, j) ==
    IF j > Len(b) THEN <<>>
    ELSE BAdd(BMulLimbC(a, b[j], 1, 0), <<0>> \o BMulAt(a, b, j + 1))

BMul(a, b) == BTrim(BMulAt(a, b, 1))

RECURSIVE Zeros(_)
Zeros(n) == IF n = 0 THEN <<>> ELSE <<0>> \o Zeros(n - 1)

\* a * 2^n
BShl(a, n) ==
    IF a = <<>> THEN a
    ELSE Zeros(n \div LimbBits) \o BTrim(BMulLimbC(a, Pow2(n % LimbBits), 1, 0))

RECURSIVE BDivLimbAt(_, _, _, _)
BDivLimbAt(a, k, i, r) ==
    IF i = 0 THEN <<>>
    ELSE LET cur == r * Base + a[i]
         IN  BDivLimbAt(a, k, i - 1, cur % k) \o <<cur \div k>>

\* floor(a / 2^n)
BShr(a, n) ==
    LET d == n \div LimbBits
        t == IF d >= Len(a) THEN <<>> ELSE SubSeq(a, d + 1, Len(a))
    IN  BTrim(BDivLimbAt(t, Pow2(n % LimbBits), Len(t), 0))

\* bit n of a, bit 0 the least significant
BBit(a, n) == (Limb(a, n \div LimbBits + 1) \div Pow2(n % LimbBits)) % 2

\* a mod 2^n = 0
BLowBitsZero(a, n) ==
    /\ \A i \in 1..(n \div LimbBits) : Limb(a, i) = 0
    /\ Limb(a, n \div LimbBits + 1) % Pow2(n % LimbBits) = 0

RECURSIVE NatBitLen(_)
NatBitLen(n) == IF n = 0 THEN 0 ELSE 1 + NatBitLen(n \div 2)

BBitLen(a) ==
    IF a = <<>> THEN 0 ELSE LimbBits * (Len(a) - 1) + NatBitLen(a[Len(a)])

\* Long division, one quotient bit a step: <<floor(r * 2^n / d), remainder>>
\* for r < d, the quotient accumulated in q.  BDivStep gets 2r and 2q.
RECURSIVE BDivBits(_, _, _, _)
RECURSIVE BDivStep(_, _, _, _)
BDivStep(r2, d, n, q2) ==
    IF Len(q2) >= 0 /\ BCmp(r2, d) >= 0
    THEN BDivBits(BSub(r2, d), d, n - 1, BAdd(q2, <<1>>))
    ELSE BDivBits(r2, d, n - 1, q2)

BDivBits(r, d, n, q) ==
    IF n = 0 THEN <<q, r>> ELSE BDivStep(BShl(r, 1), d, n, BShl(q, 1))

RECURSIVE NatTrailingZeros(_)
NatTrailingZeros(n) == IF n % 2 = 1 THEN 0 ELSE 1 + NatTrailingZeros(n \div 2)

\* the number of trailing zero bits of a # 0, counted from limb i on
RECURSIVE BTrailingZerosAt(_, _)
BTrailingZerosAt(a, i) ==
    IF a[i] = 0 THEN LimbBits + BTrailingZerosAt(a, i + 1)
    ELSE NatTrailingZeros(a[i])

\* a mod k for a limb k
RECURSIVE BModLimbAt(_, _, _, _)
BModLimbAt(a, k, i, r) ==
    IF i = 0 THEN r ELSE BModLimbAt(a, k, i - 1, (r * Base + a[i]) % k)

-----------------------------------------------------------------------------
(* IEEE-754 binary64, round to nearest, ties to even.                      *)
(* A float is [s, m, e] of value (-1)^s * m * 2^e with m of exactly 53     *)
(* bits, or the zero [s |-> 0, m |-> <<>>, e |-> 0]: one representation a  *)
(* value, so that = on floats is == of the program.                        *)

Precision == 53

FZero == [s |-> 0, m |-> <<>>, e |-> 0]

\* q of 53 or, after a carry out of the rounding, 54 bits
Normalise(s, q, e) ==
    IF BBitLen(q) > Precision
    THEN [s |-> s, m |-> BShr(q, 1), e |-> e + 1]
    ELSE [s |-> s, m |-> q, e |-> e]

\* q is the kept part, half the first bit dropped, rest whether anything
\* below it is set: up on more than half, and on a tie when q is odd
RoundHalfEven(s, q, e, half, rest) ==
    IF half /\ (rest \/ BBit(q, 0) = 1)
    THEN Normalise(s, BAdd(q, <<1>>), e)
    ELSE [s |-> s, m |-> q, e |-> e]

RoundLen(s, n, e, sticky, len) ==
    IF len <= Precision
    THEN [s |-> s, m |-> BShl(n, Precision - len), e |-> e - (Precision - len)]
    ELSE RoundHalfEven(s, BShr(n, len - Precision), e + (len - Precision),
                       BBit(n, len - Precision - 1) = 1,
                       sticky \/ ~BLowBitsZero(n, len - Precision - 1))

\* The float nearest to (-1)^s * (n + f) * 2^e, where 0 <= f < 1 and
\* sticky says f > 0.  sticky is only passed with n of more than 54 bits.
RoundPack(s, n, e, sticky) ==
    IF n = <<>> THEN FZero ELSE RoundLen(s, n, e, sticky, BBitLen(n))

\* float(n) of a Python int n
FromInt(n) ==
    RoundPack(IF n < 0 THEN 1 ELSE 0, BFromNat(IF n < 0 THEN -n ELSE n),
              0, FALSE)

FNeg(x) == IF x.m = <<>> THEN x ELSE [x EXCEPT !.s = 1 - x.s]

\* -1, 0 or 1 as |x| < |y|, |x| = |y| or |x| > |y|
FCmpAbs(x, y) ==
    IF x.m = <<>> THEN (IF y.m = <<>> THEN 0 ELSE -1)
    ELSE IF y.m = <<>> THEN 1
    ELSE IF x.e # y.e THEN (IF x.e < y.e THEN -1 ELSE 1)
    ELSE BCmp(x.m, y.m)

FCmp(x, y) ==
    IF x.s # y.s THEN (IF x.s = 1 THEN -1 ELSE 1)
    ELSE IF x.s = 0 THEN FCmpAbs(x, y) ELSE -FCmpAbs(x, y)

FLt(x, y) == FCmp(x, y) < 0
FLe(x, y) == FCmp(x, y) <= 0
FGt(x, y) == FCmp(x, y) > 0
FGe(x, y) == FCmp(x, y) >= 0

\* (-1)^sx * a * 2^e + (-1)^sy * b * 2^e
FAddAligned(sx, a, sy, b, e) ==
    RoundPack(IF sx = sy \/ BCmp(a, b) > 0 THEN sx ELSE sy,
              IF sx = sy THEN BAdd(a, b)
              ELSE IF BCmp(a, b) > 0 THEN BSub(a, b) ELSE BSub(b, a),
              e, FALSE)

\* x + y
FAdd(x, y) ==
    IF x.m = <<>> THEN y
    ELSE IF y.m = <<>> THEN x
    ELSE FAddAligned(x.s, BShl(x.m, x.e - (IF x.e < y.e THEN x.e ELSE y.e)),
                     y.s, BShl(y.m, y.e - (IF x.e < y.e THEN x.e ELSE y.e)),
                     IF x.e < y.e THEN x.e ELSE y.e)

\* x - y
FSub(x, y) == FAdd(x, FNeg(y))

\* x * y
FMul(x, y) ==
    IF x.m = <<>> \/ y.m = <<>> THEN FZero
    ELSE RoundPack((x.s + y.s) % 2, BMul(x.m, y.m), x.e + y.e, FALSE)

GuardBits == 3

\* n / k for a limb k: the quotient by short division, the remainder sticky
FDivShort(s, n, k, e) ==
    RoundPack(s, BTrim(BDivLimbAt(n, k, Len(n), 0)), e,
              BModLimbAt(n, k, Len(n), 0) # 0)

\* qr: what BDivBits returns
FDivPack(s, qr, e) == RoundPack(s, qr[1], e, qr[2] # <<>>)

\* x.m / y.m bit by bit, the first quotient bit taken here
FDivLong(x, y, first) ==
    FDivPack((x.s + y.s) % 2,
             BDivBits(IF first = 1 THEN BSub(x.m, y.m) ELSE x.m, y.m,
                      Precision + GuardBits, BFromNat(first)),
             x.e - y.e - (Precision + GuardBits))

\* y.m = d * 2^t with d odd
FDivBy(x, y, t, d) ==
    IF Len(d) = 1
    THEN FDivShort((x.s + y.s) % 2,
                   BShl(x.m, NatBitLen(d[1]) + GuardBits), d[1],
                   x.e - y.e - t - (NatBitLen(d[1]) + GuardBits))
    ELSE FDivLong(x, y, IF BCmp(x.m, y.m) >= 0 THEN 1 ELSE 0)

FDivOdd(x, y, t) == FDivBy(x, y, t, BShr(y.m, t))

\* x / y for y # 0.  The quotient of the significands is taken to
\* GuardBits more bits than a float holds, with the remainder as the sticky
\* bit: by short division when the divisor's significand, its trailing zero
\* bits dropped, is a single limb (as for 100 and 90), else bit by bit.
FDiv(x, y) ==
    IF x.m = <<>> THEN FZero ELSE FDivOdd(x, y, BTrailingZerosAt(y.m, 1))

\* Python's min(a, b) and max(a, b): the first argument wins a tie
PyMin(a, b) == IF FLt(b, a) THEN b ELSE a
PyMax(a, b) == IF FGt(b, a) THEN b ELSE a

\* q + half + rest rounded to the nearest int, ties to even
NearestEven(q, half, rest) ==
    IF half /\ (rest \/ q % 2 = 1) THEN q + 1 ELSE q

\* Python's round(x) of a float: the nearest int, ties to even
PyRound(x) ==
    IF x.m = <<>> \/ -x.e > Precision + 1 THEN 0
    ELSE (IF x.s = 1 THEN -1 ELSE 1)
             * (IF x.e >= 0 THEN BToNat(BShl(x.m, x.e))
                ELSE NearestEven(BToNat(BShr(x.m, -x.e)),
                                 BBit(x.m, -x.e - 1) = 1,
                                 ~BLowBitsZero(x.m, -x.e - 1)))

\* The float a decimal literal n/d denotes (n, d ints with d > 0): the
\* float nearest to the exact quotient, which is what dividing the two
\* exactly represented ints gives.
Dec(n, d) == FDiv(FromInt(n), FromInt(d))

-----------------------------------------------------------------------------
(* The float literals of the program.                                      *)

F0 == FromInt(0)
F1 == FromInt(1)
F10 == FromInt(10)
F30 == FromInt(30)
F50 == FromInt(50)
F75 == FromInt(75)
F90 == FromInt(90)
F100 == FromInt(100)
F3 == FromInt(3)
F5 == FromInt(5)
F0_95 == Dec(95, 100)
F0_85 == Dec(85, 100)
F0_70 == Dec(70, 100)
F0_60 == Dec(60, 100)
F0_50 == Dec(5, 10)
F0_40 == Dec(40, 100)
F0_35 == Dec(35, 100)
F0_30 == Dec(30, 100)
F0_20 == Dec(2, 10)
F0_15 == Dec(15, 100)
F0_10 == Dec(10, 100)

-----------------------------------------------------------------------------
(* The calculator object and the calls made on it.                         *)

VARIABLES
    weights,        \* self.weights: component name -> float
    MIN_SCORE,      \* self.MIN_SCORE
    MAX_SCORE,      \* self.MAX_SCORE
    SCORE_RANGE,    \* self.SCORE_RANGE
    pc,             \* "idle", "called" or "script" while a method is on
                    \* the stack, "returned" while the caller holds its result
    method,         \* the method of the last call
    args,           \* its arguments
    ret,            \* what it returned or raised, NoReturn while it runs
    score,          \* the module's global score (line 128), Unbound before
    contributions,  \* the module's global contributions (line 128)
    others          \* calls with other inputs returned since line 128 ran

self == <<weights, MIN_SCORE, MAX_SCORE, SCORE_RANGE>>
vars == <<weights, MIN_SCORE, MAX_SCORE, SCORE_RANGE,
          pc, method, args, ret, score, contributions, others>>

\* The keys of self.weights, in the order the dict literal inserts them.
Components ==
    <<"payment_history", "credit_utilization", "credit_age", "credit_mix",
      "new_credit">>

ComponentNames == {Components[i] : i \in 1..Len(Components)}

None == [kind |-> "None"]
Unbound == [kind |-> "unbound"]
Bound(v) == [kind |-> "bound", value |-> v]
NoReturn == [kind |-> "running"]
Returned(v) == [kind |-> "return", value |-> v]
Raised(exc, what) == [kind |-> exc, value |-> what]

\* int(b) of a bool
BoolInt(b) == IF b THEN 1 ELSE 0

IntMin(a, b) == IF b < a THEN b ELSE a
IntMax(a, b) == IF b > a THEN b ELSE a

\* A variant without the cap of the penalty at 90 days.
PaymentHistoryUncapped(on_time_payments_percent, days_late_avg) ==
    LET base_score == FDiv(on_time_payments_percent, F100)
    IN  IF FGt(days_late_avg, F0)
        THEN FMul(base_score,
                  FSub(F1, FMul(FDiv(days_late_avg, F90), F0_50)))
        ELSE base_score

calculate_payment_history_score(on_time_payments_percent, days_late_avg) ==
    LET base_score == FDiv(on_time_payments_percent, F100)
    IN  IF FGt(days_late_avg, F0)
        THEN LET late_penalty == PyMin(FDiv(days_late_avg, F90), F1)
             IN  FMul(base_score, FSub(F1, FMul(late_penalty, F0_50)))
        ELSE base_score

\* A variant whose buckets exclude their upper bounds.
UtilizationStrictBuckets(utilization_percent) ==
    IF FLt(utilization_percent, F10) THEN F0_95
    ELSE IF FLt(utilization_percent, F30) THEN F1
    ELSE IF FLt(utilization_percent, F50) THEN F0_85
    ELSE IF FLt(utilization_percent, F75) THEN F0_60
    ELSE F0_30

calculate_credit_utilization_score(utilization_percent) ==
    IF FLe(utilization_percent, F10) THEN F0_95
    ELSE IF FLe(utilization_percent, F30) THEN F1
    ELSE IF FLe(utilization_percent, F50) THEN F0_85
    ELSE IF FLe(utilization_percent, F75) THEN F0_60
    ELSE F0_30

\* A variant that gives an account younger than a year no points.
CreditAgeNoFloor(years) ==
    IF FGe(years, F5) THEN F1
    ELSE IF FGe(years, F3) THEN F0_85
    ELSE IF FGe(years, F1) THEN F0_70
    ELSE F0

calculate_credit_age_score(years) ==
    IF FGe(years, F5) THEN F1
    ELSE IF FGe(years, F3) THEN F0_85
    ELSE IF FGe(years, F1) THEN F0_70
    ELSE F0_40

calculate_credit_mix_score(num_secured_loans, num_unsecured_loans, has_credit_card) ==
    LET total_products ==
            num_secured_loans + num_unsecured_loans + BoolInt(has_credit_card)
        diversity_score ==
            FAdd(FAdd(FMul(FromInt(IntMin(num_secured_loans, 2)), F0_30),
                      FMul(FromInt(IntMin(num_unsecured_loans, 2)), F0_20)),
                 FMul(FromInt(BoolInt(has_credit_card)), F0_20))
    IN  IF total_products = 0 THEN F0_30 ELSE PyMin(diversity_score, F1)

\* A variant in which the two penalties add up.
NewCreditStacked(num_inquiries_6months, num_new_accounts_6months) ==
    LET inquiry_penalty ==
            PyMin(FMul(FromInt(num_inquiries_6months), F0_15), F0_60)
        new_account_penalty ==
            PyMin(FMul(FromInt(num_new_accounts_6months), F0_20), F0_60)
    IN  FSub(F1, FAdd(inquiry_penalty, new_account_penalty))

calculate_new_credit_score(num_inquiries_6months, num_new_accounts_6months) ==
    LET inquiry_penalty ==
            PyMin(FMul(FromInt(num_inquiries_6months), F0_15), F0_60)
        new_account_penalty ==
            PyMin(FMul(FromInt(num_new_accounts_6months), F0_20), F0_60)
    IN  FSub(F1, PyMax(inquiry_penalty, new_account_penalty))

\* Line 83: one component's points.
WeightedScore(component, component_score) ==
    FMul(FMul(component_score, weights[component]), FromInt(SCORE_RANGE))

\* Lines 82-85: the loop over components.items(), from item i on, with the
\* dict built and the total accumulated so far.  A component that is no key
\* of self.weights raises KeyError at line 83 and ends the call.
RECURSIVE ScoreLoop(_, _, _, _)
ScoreLoop(components, i, weighted_scores, total_score) ==
    IF i > Len(components)
    THEN [raised |-> FALSE, weighted_scores |-> weighted_scores,
          total_score |-> total_score]
    ELSE LET component == components[i][1]
         IN  IF component \notin DOMAIN weights
             THEN [raised |-> TRUE, key |-> component]
             ELSE LET weighted_score == WeightedScore(component, components[i][2])
                  IN  ScoreLoop(components, i + 1,
                                Append(weighted_scores,
                                       <<component, weighted_score>>),
                                FAdd(total_score, weighted_score))

\* A variant that rounds the total before it adds the floor.
RoundThenAdd(total_score) == PyRound(total_score) + MIN_SCORE

\* Line 87: int(round(total_score + self.MIN_SCORE))
RoundedScore(total_score) == PyRound(FAdd(total_score, FromInt(MIN_SCORE)))

\* A variant that clamps from below only.
ClampFloorOnly(final_score) == IntMax(final_score, MIN_SCORE)

\* Line 89: max(min(final_score, self.MAX_SCORE), self.MIN_SCORE)
ClampScore(final_score) == IntMax(IntMin(final_score, MAX_SCORE), MIN_SCORE)

\* Lines 87-91, or the KeyError of the loop passed on.
ScoreReturn(loop) ==
    IF loop.raised THEN Raised("KeyError", loop.key)
    ELSE Returned(<<ClampScore(RoundedScore(loop.total_score)),
                    loop.weighted_scores>>)

\* components: the dict as the sequence of its items <<name, score>>, in
\* insertion order.  The result: the pair, or the exception raised.
calculate_final_score(components) ==
    ScoreReturn(ScoreLoop(components, 1, <<>>, F0))

calculate_score(on_time_payments_percent, days_late_avg, utilization_percent, credit_age_years, num_secured_loans, num_unsecured_loans, has_credit_card, num_inquiries_6months, num_new_accounts_6months) ==
    LET components == <<
            <<"payment_history",
              calculate_payment_history_score(on_time_payments_percent,
                                              days_late_avg)>>,
            <<"credit_utilization",
              calculate_credit_utilization_score(utilization_percent)>>,
            <<"credit_age", calculate_credit_age_score(credit_age_years)>>,
            <<"credit_mix",
              calculate_credit_mix_score(num_secured_loans,
                                         num_unsecured_loans,
                                         has_credit_card)>>,
            <<"new_credit",
              calculate_new_credit_score(num_inquiries_6months,
                                         num_new_accounts_6months)>> >>
    IN  calculate_final_score(components)

-----------------------------------------------------------------------------
(* The inputs the callers pass.                                            *)

MaxLoans == 3
MaxInquiries == 5
MaxNewAccounts == 4

Floats(ints) == {FromInt(n) : n \in ints}

\* on_time_payments_percent: 0..100 is the valid range
OnTimePercents == Floats({-100, 0, 50, 95, 100, 150}) \cup {Dec(995, 10)}
\* days_late_avg: >= 0 is the valid range
DaysLate == Floats({-3, 0, 5, 45, 89, 90, 91, 180}) \cup {Dec(5, 10)}
\* utilization_percent
Utilizations ==
    Floats({-5, 0, 10, 11, 25, 30, 31, 50, 51, 75, 76, 100, 250})
        \cup {Dec(1001, 100), Dec(3001, 100), Dec(999, 100), Dec(7501, 100)}
\* credit_age_years
CreditAges == Floats({-1, 0, 1, 2, 3, 4, 5, 30}) \cup {Dec(5, 10), Dec(49, 10)}

PaymentHistoryInputs == OnTimePercents \X DaysLate
CreditMixInputs == (-1..MaxLoans) \X (-1..MaxLoans) \X BOOLEAN
NewCreditInputs == (-1..MaxInquiries) \X (-1..MaxNewAccounts)

\* The call of the example usage, lines 128-138.
SampleCall ==
    <<FromInt(95), FromInt(5), FromInt(25), FromInt(3), 1, 1, TRUE, 1, 0>>

\* calculate_score: a grid of valid and out-of-range values, and the sample.
ScoreInputs ==
    (Floats({-100, 0, 80, 100, 150}) \X Floats({0, 5}) \X Floats({0, 25, 80})
        \X Floats({0, 3, 5}) \X {0, MaxLoans} \X {0, 1} \X BOOLEAN \X {0}
        \X {0, MaxNewAccounts})
    \cup {SampleCall}

\* Scores a caller of calculate_final_score hands in: in [0, 1] and outside.
ScoreValues == {F0, F0_95, F1}
WildValues == {FromInt(-1), FromInt(2)}

Items(keys, values) == [i \in 1..Len(keys) |-> <<keys[i], values[i]>>]

\* All five components in the order of calculate_score.
FullMappings ==
    {Items(Components, v) : v \in [1..5 -> ScoreValues]}
        \cup {Items(Components, [i \in 1..5 |-> w]) : w \in WildValues}

RECURSIVE SubSeqs(_)
SubSeqs(q) ==
    IF q = <<>> THEN {<<>>}
    ELSE LET rest == SubSeqs(Tail(q))
         IN  rest \cup {<<Head(q)>> \o r : r \in rest}

\* Hand-assembled dicts that lack components, every score 1.0.
PartialMappings ==
    {Items(k, [i \in 1..Len(k) |-> F1]) : k \in SubSeqs(Components) \ {Components}}

\* The five components inserted in another order.
ReorderedMappings ==
    {Items(<<"new_credit", "credit_mix", "credit_age", "credit_utilization",
             "payment_history">>, v) : v \in [1..5 -> {F0_85, F1}]}

\* A key that is no component.
UnknownKeyMappings ==
    {Items(<<"payment_history", "income">>, <<F1, F1>>),
     Items(<<"income">>, <<F1>>)}

FinalScoreInputs ==
    FullMappings \cup PartialMappings \cup ReorderedMappings
        \cup UnknownKeyMappings

-----------------------------------------------------------------------------
(* The state machine.                                                      *)

\* A variant whose weight table gives new_credit 0.15.
InitHeavyNewCredit ==
    /\ weights = [c \in ComponentNames |->
                    CASE c = "payment_history" -> F0_35
                      [] c = "credit_utilization" -> F0_30
                      [] c = "credit_age" -> F0_15
                      [] c = "credit_mix" -> F0_10
                      [] c = "new_credit" -> F0_15]
    /\ MIN_SCORE = 300
    /\ MAX_SCORE = 900
    /\ SCORE_RANGE = 900 - 300
    /\ pc = "idle"
    /\ method = "__init__"
    /\ args = <<>>
    /\ ret = None
    /\ score = Unbound
    /\ contributions = Unbound
    /\ others = FALSE

\* Lines 5-16 and line 125: the constructed calculator, nothing called yet.
Init ==
    /\ weights = [c \in ComponentNames |->
                    CASE c = "payment_history" -> F0_35
                      [] c = "credit_utilization" -> F0_30
                      [] c = "credit_age" -> F0_15
                      [] c = "credit_mix" -> F0_10
                      [] c = "new_credit" -> F0_10]
    /\ MIN_SCORE = 300
    /\ MAX_SCORE = 900
    /\ SCORE_RANGE = 900 - 300
    /\ pc = "idle"
    /\ method = "__init__"     \* no call made yet, or none whose result is held
    /\ args = <<>>
    /\ ret = None
    /\ score = Unbound
    /\ contributions = Unbound
    /\ others = FALSE

\* A variant in which calculate_final_score folds the floor into
\* self.SCORE_RANGE instead of a local.
RangeAccumulates ==
    /\ SCORE_RANGE' = IF method \in {"calculate_final_score", "calculate_score"}
                      THEN SCORE_RANGE + MIN_SCORE ELSE SCORE_RANGE
    /\ UNCHANGED <<weights, MIN_SCORE, MAX_SCORE>>

\* No method assigns an attribute of self (lines 18-122).
ConfigUnchanged == UNCHANGED <<weights, MIN_SCORE, MAX_SCORE, SCORE_RANGE>>

\* A caller invokes method m with arguments a.
Invoke(m, a) ==
    /\ pc = "idle"
    /\ pc' = "called"
    /\ method' = m
    /\ args' = a
    /\ ret' = NoReturn
    /\ UNCHANGED <<weights, MIN_SCORE, MAX_SCORE, SCORE_RANGE, score,
                   contributions, others>>

Call ==
    \/ \E a \in PaymentHistoryInputs :
           Invoke("calculate_payment_history_score", a)
    \/ \E a \in Utilizations :
           Invoke("calculate_credit_utilization_score", <<a>>)
    \/ \E a \in CreditAges : Invoke("calculate_credit_age_score", <<a>>)
    \/ \E a \in CreditMixInputs : Invoke("calculate_credit_mix_score", a)
    \/ \E a \in NewCreditInputs : Invoke("calculate_new_credit_score", a)
    \/ \E a \in FinalScoreInputs : Invoke("calculate_final_score", <<a>>)
    \/ \E a \in ScoreInputs : Invoke("calculate_score", a)

\* Lines 128-138: the example usage calls calculate_score and assigns the
\* result to the globals score and contributions.
ExampleUsage ==
    /\ pc = "idle"
    /\ score = Unbound
    /\ pc' = "script"
    /\ method' = "calculate_score"
    /\ args' = SampleCall
    /\ ret' = NoReturn
    /\ UNCHANGED <<weights, MIN_SCORE, MAX_SCORE, SCORE_RANGE, score,
                   contributions, others>>

\* A sub-score method runs and returns r.
SubScoreReturns(m, r) ==
    /\ pc = "called"
    /\ method = m
    /\ ret' = Returned(r)
    /\ pc' = "returned"
    /\ others' = (score # Unbound)
    /\ ConfigUnchanged
    /\ UNCHANGED <<method, args, score, contributions>>

Exec_calculate_payment_history_score ==
    SubScoreReturns("calculate_payment_history_score",
                    calculate_payment_history_score(args[1], args[2]))

Exec_calculate_credit_utilization_score ==
    SubScoreReturns("calculate_credit_utilization_score",
                    calculate_credit_utilization_score(args[1]))

Exec_calculate_credit_age_score ==
    SubScoreReturns("calculate_credit_age_score",
                    calculate_credit_age_score(args[1]))

Exec_calculate_credit_mix_score ==
    SubScoreReturns("calculate_credit_mix_score",
                    calculate_credit_mix_score(args[1], args[2], args[3]))

Exec_calculate_new_credit_score ==
    SubScoreReturns("calculate_new_credit_score",
                    calculate_new_credit_score(args[1], args[2]))

Exec_calculate_final_score ==
    /\ pc = "called"
    /\ method = "calculate_final_score"
    /\ ret' = calculate_final_score(args[1])
    /\ pc' = "returned"
    /\ others' = (score # Unbound)
    /\ ConfigUnchanged
    /\ UNCHANGED <<method, args, score, contributions>>

Exec_calculate_score ==
    /\ pc \in {"called", "script"}
    /\ method = "calculate_score"
    /\ \E r \in {calculate_score(args[1], args[2], args[3], args[4], args[5],
                                args[6], args[7], args[8], args[9])} :
           /\ ret' = r
           /\ IF pc = "script"
              THEN /\ score' = Bound(r.value[1])
                   /\ contributions' = Bound(r.value[2])
                   /\ others' = FALSE
              ELSE /\ UNCHANGED <<score, contributions>>
                   /\ others' = IF args = SampleCall THEN others
                                ELSE (score # Unbound)
    /\ pc' = "returned"
    /\ ConfigUnchanged
    /\ UNCHANGED <<method, args>>

\* The caller is done with the result and drops it.
Discard ==
    /\ pc = "returned"
    /\ pc' = "idle"
    /\ method' = "__init__"
    /\ args' = <<>>
    /\ ret' = None
    /\ UNCHANGED <<weights, MIN_SCORE, MAX_SCORE, SCORE_RANGE, score,
                   contributions, others>>

Next ==
    \/ Call
    \/ Discard
    \/ ExampleUsage
    \/ Exec_calculate_payment_history_score
    \/ Exec_calculate_credit_utilization_score
    \/ Exec_calculate_credit_age_score
    \/ Exec_calculate_credit_mix_score
    \/ Exec_calculate_new_credit_score
    \/ Exec_calculate_final_score
    \/ Exec_calculate_score

Spec == Init /\ [][Next]_vars

-----------------------------------------------------------------------------
(* What the properties below are stated with.  The numbers of the          *)
(* specification are written out here, so that a property compares the     *)
(* program with them and not the program with itself.                      *)

ReturnedFrom(m) == pc = "returned" /\ method = m

\* items added up one after the other, as line 85 adds them
RECURSIVE SumFrom(_, _, _)
SumFrom(items, i, acc) ==
    IF i > Len(items) THEN acc
    ELSE SumFrom(items, i + 1, FAdd(acc, items[i][2]))

ContributionSum(items) == SumFrom(items, 1, FromInt(0))

KeysOf(items) == {items[i][1] : i \in 1..Len(items)}

FiveComponents(items) == Len(items) = 5 /\ KeysOf(items) = ComponentNames

StatedWeight(component) ==
    CASE component = "payment_history" -> Dec(35, 100)
      [] component = "credit_utilization" -> Dec(30, 100)
      [] component = "credit_age" -> Dec(15, 100)
      [] component = "credit_mix" -> Dec(10, 100)
      [] component = "new_credit" -> Dec(10, 100)

StatedContribution(item) ==
    <<item[1], FMul(FMul(item[2], StatedWeight(item[1])), FromInt(600))>>

StatedClamp(n) == IF n < 300 THEN 300 ELSE IF n > 900 THEN 900 ELSE n

\* round(total + 300): the floor added in floating point, then rounded
RoundOfSum(total) == PyRound(FAdd(total, FromInt(300)))

\* round(total) + 300: rounded first, the floor added to the integer
RoundPlusFloor(total) == PyRound(total) + 300

ContributionsAsStated(given, made) ==
    /\ Len(made) = Len(given)
    /\ \A i \in 1..Len(given) : made[i] = StatedContribution(given[i])

\* 0.9999999999999999 = 1 - 2^-53, the float next below 1.0: all 53 bits
\* of the significand set
BelowOne == [s |-> 0, m |-> BSub(BShl(<<1>>, 53), <<1>>), e |-> -53]

\* sum(self.weights.values()) as a loop of float additions in dict order
RECURSIVE WeightSumFrom(_, _)
WeightSumFrom(i, acc) ==
    IF i > Len(Components) THEN acc
    ELSE WeightSumFrom(i + 1, FAdd(acc, weights[Components[i]]))

WeightSum == WeightSumFrom(1, FromInt(0))

ConfigAsStated ==
    /\ DOMAIN weights = ComponentNames
    /\ \A c \in ComponentNames : weights[c] = StatedWeight(c)
    /\ MIN_SCORE = 300
    /\ MAX_SCORE = 900
    /\ SCORE_RANGE = 600

ValidScoreArgs(a) ==
    /\ FGe(a[1], FromInt(0)) /\ FLe(a[1], FromInt(100))
    /\ FGe(a[2], FromInt(0))
    /\ FGe(a[3], FromInt(0))
    /\ FGe(a[4], FromInt(0))
    /\ a[5] >= 0 /\ a[6] >= 0 /\ a[8] >= 0 /\ a[9] >= 0

Between(lo, x, hi) == FLe(lo, x) /\ FLe(x, hi)

-----------------------------------------------------------------------------
(* The properties.                                                         *)

\* C1: whatever calculate_score is called with, in range or out of it, and
\* whatever mapping of known components calculate_final_score is called
\* with, the final score returned is an integer from 300 to 900.
C1_FinalScoreInRange ==
    (/\ pc = "returned"
     /\ \/ method = "calculate_score"
        \/ /\ method = "calculate_final_score"
           /\ KeysOf(args[1]) \subseteq ComponentNames)
    => /\ ret.kind = "return"
       /\ ret.value[1] \in Int
       /\ 300 <= ret.value[1] /\ ret.value[1] <= 900

\* C1, its case: a call whose rounded total lies above 900 returned 900.
C1_CeilingApplied ==
    /\ ReturnedFrom("calculate_score")
    /\ RoundOfSum(ContributionSum(ret.value[2])) > 900
    /\ ret.value[1] = 900

\* C2: calculate_final_score called with a mapping that lacks one of the
\* five components fails with KeyError and returns no score.
C2_MissingComponentRaises ==
    (/\ ReturnedFrom("calculate_final_score")
     /\ ComponentNames \ KeysOf(args[1]) # {})
    => ret.kind = "KeyError"

\* C3, as amended: for a mapping of the five components the contributions
\* returned are score * weight * 600 each, and the final score is
\* round(sum + 300) clamped to 300..900, the floor added to the sum in
\* floating point before the rounding.
C3_ContributionsAndRoundedSum ==
    (/\ ReturnedFrom("calculate_final_score")
     /\ FiveComponents(args[1]))
    => /\ ret.kind = "return"
       /\ ContributionsAsStated(args[1], ret.value[2])
       /\ ret.value[1] = StatedClamp(RoundOfSum(ContributionSum(ret.value[2])))

\* C3, its case: a mapping of the five components for which rounding
\* before and after adding 300 differ, and the call returned its score.
C3_RoundingOrderShows ==
    /\ ReturnedFrom("calculate_final_score")
    /\ FiveComponents(args[1])
    /\ ret.kind = "return"
    /\ RoundPlusFloor(ContributionSum(ret.value[2]))
           # RoundOfSum(ContributionSum(ret.value[2]))
    /\ RoundOfSum(ContributionSum(ret.value[2])) \in 300..900

\* C3 as stated: the contributions are score * weight * 600 each, and the
\* final score is round(sum) + 300 clamped to 300..900, which rounding
\* after adding 300 is said to equal.
C3_RoundThenAddFloor ==
    (/\ ReturnedFrom("calculate_final_score")
     /\ FiveComponents(args[1]))
    => /\ ret.kind = "return"
       /\ ContributionsAsStated(args[1], ret.value[2])
       /\ ret.value[1]
              = StatedClamp(RoundPlusFloor(ContributionSum(ret.value[2])))
       /\ RoundPlusFloor(ContributionSum(ret.value[2]))
              = RoundOfSum(ContributionSum(ret.value[2]))

\* C4: a call of calculate_score with the inputs of the call at line 128
\* returns the score and the contributions that call returned, whatever
\* calls with other inputs returned in between.
C4_SameInputsSameOutput ==
    (/\ ReturnedFrom("calculate_score")
     /\ args = SampleCall
     /\ score # Unbound)
    => /\ ret.kind = "return"
       /\ ret.value[1] = score.value
       /\ ret.value[2] = contributions.value

\* C4, its case: the call was repeated after calls with other inputs.
C4_RepeatedAfterOthers ==
    /\ ReturnedFrom("calculate_score")
    /\ args = SampleCall
    /\ score # Unbound
    /\ others
    /\ ret.kind = "return"
    /\ ret.value[1] = score.value

C6_MixScoreAtLeastFloor ==
    (/\ ReturnedFrom("calculate_credit_mix_score")
     /\ args[1] >= 0 /\ args[2] >= 0)
    => Between(Dec(30, 100), ret.value, FromInt(1))

\* C7: for counts that are not negative calculate_new_credit_score returns
\* 1.0 less the larger of the two capped penalties, which is the lower of
\* the scores either penalty alone gives, and lies in 0.40..1.0.
C7_LargerPenaltyOnly ==
    (/\ ReturnedFrom("calculate_new_credit_score")
     /\ args[1] >= 0 /\ args[2] >= 0)
    => /\ ret.value
              = PyMin(FSub(FromInt(1),
                           PyMin(FMul(FromInt(args[1]), Dec(15, 100)),
                                 Dec(60, 100))),
                      FSub(FromInt(1),
                           PyMin(FMul(FromInt(args[2]), Dec(20, 100)),
                                 Dec(60, 100))))
       /\ Between(Dec(40, 100), ret.value, FromInt(1))

\* C7, its case: two inquiries and two new accounts score 0.60.
C7_TwoAndTwo ==
    /\ ReturnedFrom("calculate_new_credit_score")
    /\ args = <<2, 2>>
    /\ ret.value = Dec(60, 100)

\* C8: for 0 <= on_time_payments_percent <= 100 and days_late_avg >= 0
\* calculate_payment_history_score returns a value from base / 2 to base,
\* base being on_time_payments_percent / 100, hence one in 0..1: base when
\* days_late_avg is 0, and base / 2 from 90 days on.
C8_HalfBaseToBase ==
    (/\ ReturnedFrom("calculate_payment_history_score")
     /\ Between(FromInt(0), args[1], FromInt(100))
     /\ FGe(args[2], FromInt(0)))
    => /\ Between(FDiv(FDiv(args[1], FromInt(100)), FromInt(2)), ret.value,
                  FDiv(args[1], FromInt(100)))
       /\ Between(FromInt(0), ret.value, FromInt(1))
       /\ (args[2] = FromInt(0) => ret.value = FDiv(args[1], FromInt(100)))
       /\ (FGe(args[2], FromInt(90))
              => ret.value = FDiv(FDiv(args[1], FromInt(100)), FromInt(2)))

\* C8, its case: all payments on time, 180 days late on average: 0.50.
C8_SaturatedPenalty ==
    /\ ReturnedFrom("calculate_payment_history_score")
    /\ args = <<FromInt(100), FromInt(180)>>
    /\ ret.value = Dec(50, 100)

\* C9: calculate_credit_utilization_score returns 0.95 up to 10, 1.00
\* above 10 and up to 30, 0.85 above 30 and up to 50, 0.60 above 50 and up
\* to 75, and 0.30 above 75: a threshold belongs to the bucket below it.
C9_InclusiveBuckets ==
    ReturnedFrom("calculate_credit_utilization_score")
    => /\ FLe(args[1], FromInt(10)) => ret.value = Dec(95, 100)
       /\ FGt(args[1], FromInt(10)) /\ FLe(args[1], FromInt(30))
              => ret.value = FromInt(1)
       /\ FGt(args[1], FromInt(30)) /\ FLe(args[1], FromInt(50))
              => ret.value = Dec(85, 100)
       /\ FGt(args[1], FromInt(50)) /\ FLe(args[1], FromInt(75))
              => ret.value = Dec(60, 100)
       /\ FGt(args[1], FromInt(75)) => ret.value = Dec(30, 100)

\* C9, its case: a utilization of exactly 10 scores 0.95.
C9_OnThreshold ==
    /\ ReturnedFrom("calculate_credit_utilization_score")
    /\ args = <<FromInt(10)>>
    /\ ret.value = Dec(95, 100)

\* C10, as amended: for valid inputs of calculate_score the sum of the
\* contributions lies in 126..600 and the final score is round(sum + 300),
\* the floor added to the sum in floating point before the rounding, with
\* no clamping; it lies in 426..900, so 300 is not reached.
C10_ValidInputsUnclamped ==
    (/\ ReturnedFrom("calculate_score")
     /\ ValidScoreArgs(args))
    => /\ ret.kind = "return"
       /\ Between(FromInt(126), ContributionSum(ret.value[2]), FromInt(600))
       /\ ret.value[1] = RoundOfSum(ContributionSum(ret.value[2]))
       /\ ret.value[1] \in 426..900

\* C10, its case: valid inputs for which rounding before and after adding
\* 300 differ.
C10_ValidRoundingOrderShows ==
    /\ ReturnedFrom("calculate_score")
    /\ ValidScoreArgs(args)
    /\ ret.kind = "return"
    /\ ret.value[1] # RoundPlusFloor(ContributionSum(ret.value[2]))

\* C10 as stated: for valid inputs of calculate_score the sum of the
\* contributions lies in 126..600 and the final score is round(sum) + 300,
\* which lies in 426..900.
C10_ValidInputsRoundPlusFloor ==
    (/\ ReturnedFrom("calculate_score")
     /\ ValidScoreArgs(args))
    => /\ ret.kind = "return"
       /\ Between(FromInt(126), ContributionSum(ret.value[2]), FromInt(600))
       /\ ret.value[1] = RoundPlusFloor(ContributionSum(ret.value[2]))
       /\ ret.value[1] \in 426..900

====
